---------------------------- MODULE Spec2Model ----------------------------
(***************************************************************************)
(* Model of streamlit_app.py (Stock Portfolio Tracker).                    *)
(*                                                                         *)
(* Units.  Prices are held in mills (1/1000 of a dollar) so that the       *)
(* tables' prices and half of them are integers; a product or quotient     *)
(* that Python computes in binary floating point is computed here in       *)
(* mills and truncated toward zero.  Time is in whole seconds of           *)
(* time.time(); dates are day numbers relative to today (0).               *)
(***************************************************************************)
EXTENDS Integers, Sequences, FiniteSets, TLC

VARIABLES
    \* ---- st.session_state and the process around it
    portfolio,        \* st.session_state.portfolio: sequence of holdings
    tech_stocks,      \* st.session_state.tech_stocks: symbol -> entry (a function on a subset of the keys)
    last_api_call,    \* st.session_state.last_api_call
    api_call_count,   \* st.session_state.api_call_count
    last_auto_save,   \* st.session_state.last_auto_save, -1 while the key is not in the session
    file,             \* portfolio_data.json: "absent", "corrupt" or the saved document
    now,              \* time.time()
    hashseed,         \* the process's string-hash seed (PYTHONHASHSEED, drawn at process start)
    \* ---- position of the running script
    pc,               \* "idle" between reruns, else the loop the script is in
    page,             \* the page the rerun renders
    idx,              \* index of the next item of the current loop
    clicked,          \* the button clicked in this rerun ("none" if none)
    reruns,           \* reruns started since the model began
    \* ---- what the run has shown / done (observations)
    ret,              \* what the last get_stock_price / get_stock_history call returned
    http,             \* log of the live HTTP requests: count and the times of the last two
    shown,            \* what the rerun has displayed: price label, chart, notices
    confirm,          \* the 'I understand ...' checkbox of Data Management: "shown" while on screen
    \* ---- generate_mock_history run step by step (SpecMock)
    g_symbol, g_days, g_base, g_i, g_prev, g_cur, g_floored,
    \* ---- two invocations of the fallback generator (SpecRepro)
    r_symbol, r_days, r_seed, r_hist, r_price, r_n

sessVars == <<portfolio, tech_stocks, last_api_call, api_call_count, last_auto_save>>
mainVars == <<portfolio, tech_stocks, last_api_call, api_call_count, last_auto_save,
              file, now, hashseed, pc, page, idx, clicked, reruns, ret, http, shown, confirm>>
genVars  == <<g_symbol, g_days, g_base, g_i, g_prev, g_cur, g_floored>>
reproVars == <<r_symbol, r_days, r_seed, r_hist, r_price, r_n>>
vars == <<mainVars, genVars, reproVars>>

-----------------------------------------------------------------------------
(* Bounds of the model *)

\* time.time() when the model starts, and how long the model runs
StartTime == 20
Horizon == 40
\* reruns (user interactions) one run of the model follows
MaxReruns == 2
\* holdings the portfolio may hold
MaxPortfolio == 2
\* how many entries of TECH_STOCKS (in the source's order) the model keeps
NumTech == 2
\* string-hash seeds a process may draw
NumSeeds == 2
\* days of history asked of the stepwise generator
MaxGenDays == 40
\* days of history asked of the generator when two invocations are compared
MaxReproDays == 3

-----------------------------------------------------------------------------
(* Program constants *)

MinCallSpacing == 12
AutoSaveEvery == 30
RequestTimeout == 10
UpdateDelay == 1
WarnThreshold == 450
LiveLabelLimit == 10
DashboardDays == 90
TechChartDays == 30
TechChartCount == 6
ProjectionStop == 366
ProjectionStep == 30
DefaultUnits == 10

Min(a, b) == IF a < b THEN a ELSE b
Max(a, b) == IF a > b THEN a ELSE b
Abs(a) == IF a < 0 THEN -a ELSE a
\* integer quotient truncated toward zero (b > 0)
TruncDiv(a, b) == IF a >= 0 THEN a \div b ELSE -((-a) \div b)
Last(s) == s[Len(s)]
Reverse(s) == [k \in 1..Len(s) |-> s[Len(s) + 1 - k]]
Take(s, n) == SubSeq(s, 1, Min(n, Len(s)))

\* STOCK_SYMBOLS: choice -> API symbol and mock price (mills)
STOCK_SYMBOLS ==
    [ NDQ |-> [symbol |-> "NDQ.AX", mock_price |-> 32500],
      IVV |-> [symbol |-> "IVV",    mock_price |-> 485750],
      CBA |-> [symbol |-> "CBA.AX", mock_price |-> 112300] ]

StockChoices == DOMAIN STOCK_SYMBOLS

\* TECH_STOCKS in the order of the source (dict order = insertion order)
TechTable ==
    << [key |-> "AAPL",  name |-> "Apple",     mock_price |-> 185500],
       [key |-> "MSFT",  name |-> "Microsoft", mock_price |-> 375250],
       [key |-> "GOOGL", name |-> "Google",    mock_price |-> 138750],
       [key |-> "AMZN",  name |-> "Amazon",    mock_price |-> 155200],
       [key |-> "META",  name |-> "Meta",      mock_price |-> 345600],
       [key |-> "TSLA",  name |-> "Tesla",     mock_price |-> 245800],
       [key |-> "NVDA",  name |-> "NVIDIA",    mock_price |-> 485300],
       [key |-> "AMD",   name |-> "AMD",       mock_price |-> 128450],
       [key |-> "INTC",  name |-> "Intel",     mock_price |-> 44200],
       [key |-> "ADBE",  name |-> "Adobe",     mock_price |-> 565400] >>

\* the entries of TECH_STOCKS the model keeps
TECH_STOCKS == SubSeq(TechTable, 1, Min(NumTech, Len(TechTable)))
TechKeys == [k \in 1..Len(TECH_STOCKS) |-> TECH_STOCKS[k].key]
TechKeySet == {TECH_STOCKS[k].key : k \in 1..Len(TECH_STOCKS)}
TechEntry(symbol) == CHOOSE e \in {TECH_STOCKS[k] : k \in 1..Len(TECH_STOCKS)} : e.key = symbol

StockSymbolSet == {STOCK_SYMBOLS[c].symbol : c \in StockChoices}
\* a symbol in neither table (a data file written by hand or by another variant)
OtherSymbol == "XYZ"
AllSymbols == StockSymbolSet \cup TechKeySet \cup {OtherSymbol}

Seeds == 0..(NumSeeds - 1)
EndTime == StartTime + Horizon

-----------------------------------------------------------------------------
(* hash(): Python's str hash is a keyed hash whose key is drawn when the    *)
(* process starts.  StrHash stands for it: a function of the seed and of   *)
(* the string (symbol, or symbol + str(i) for i >= 1; i = 0: no suffix).   *)

SymCode(symbol) ==
    CASE symbol = "NDQ.AX" -> 1 [] symbol = "IVV" -> 2 [] symbol = "CBA.AX" -> 3
      [] symbol = "AAPL" -> 4 [] symbol = "MSFT" -> 5 [] symbol = "GOOGL" -> 6
      [] symbol = "AMZN" -> 7 [] symbol = "META" -> 8 [] symbol = "TSLA" -> 9
      [] symbol = "NVDA" -> 10 [] symbol = "AMD" -> 11 [] symbol = "INTC" -> 12
      [] symbol = "ADBE" -> 13 [] OTHER -> 14

StrHash(seed, symbol, i) ==
    ((seed * 131 + 17) * (SymCode(symbol) * 7919 + i * 10473 + 12345)) % 65521

-----------------------------------------------------------------------------
(* get_stock_price(symbol, use_mock=True), lines 113-121 *)

mock_price(seed, symbol) ==
    IF \E c \in StockChoices : STOCK_SYMBOLS[c].symbol = symbol
    THEN STOCK_SYMBOLS[CHOOSE c \in StockChoices : STOCK_SYMBOLS[c].symbol = symbol].mock_price
    ELSE IF symbol \in TechKeySet
    THEN TechEntry(symbol).mock_price
    ELSE (100 + (StrHash(seed, symbol, 0) % 200)) * 1000

(* generate_mock_history, lines 188-193: one pass of the loop body.  m is   *)
(* hash(symbol + str(i)) % 200.                                            *)
MockChange(prev, m) == TruncDiv(prev * 2 * (m - 100), 10000)

MockNextNoFloor(prev, base, m) == prev + MockChange(prev, m)

MockNext(prev, base, m) == Max(prev + MockChange(prev, m), base \div 2)

(* generate_mock_history, lines 177-198: the prices, oldest first.         *)
(* pd.date_range(start=now-days, end=now, freq='D') has days + 1 dates.    *)
RECURSIVE MockPrices(_, _, _, _, _)
MockPrices(seed, symbol, base, n, prices) ==
    IF Len(prices) >= n THEN prices
    ELSE MockPrices(seed, symbol, base, n,
             Append(prices, MockNext(Last(prices), base, StrHash(seed, symbol, Len(prices)) % 200)))

generate_mock_history(seed, symbol, days) ==
    LET n == days + 1
        prices == MockPrices(seed, symbol, mock_price(seed, symbol), n, <<mock_price(seed, symbol)>>)
    IN  [k \in 1..n |-> [date |-> k - n, price |-> prices[k]]]

(* calculate_expected_growth, lines 200-204: growth_rate = 0.08, so        *)
(* 1 + 0.08 * days / 365 = 1 + 2 * days / 9125.                            *)
calculate_expected_growth(current_price, days) ==
    current_price + TruncDiv(current_price * 2 * days, 9125)

-----------------------------------------------------------------------------
(* The state the operations below work on, as one record *)

St == [ portfolio |-> portfolio, tech_stocks |-> tech_stocks,
        last_api_call |-> last_api_call, api_call_count |-> api_call_count,
        last_auto_save |-> last_auto_save, file |-> file, now |-> now,
        http |-> http ]

Commit(s) ==
    /\ portfolio' = s.portfolio
    /\ tech_stocks' = s.tech_stocks
    /\ last_api_call' = s.last_api_call
    /\ api_call_count' = s.api_call_count
    /\ last_auto_save' = s.last_auto_save
    /\ file' = s.file
    /\ now' = s.now
    /\ http' = s.http

\* a str made from a time or date, and a datetime object
IsoStr(t) == [kind |-> "str", at |-> t]
DateTime(t) == [kind |-> "datetime", at |-> t]
EmptyDict == [k \in {} |-> 0]

-----------------------------------------------------------------------------
(* json.dump(data, f, indent=2, default=str) and json.load, lines 26, 43.  *)
(* Strings, numbers, lists and dicts with str keys are written and read    *)
(* back as they are; any other object is written as str(object).           *)

JsonDefault(x) == IF x.kind = "datetime" THEN IsoStr(x.at) ELSE x

JsonEntry(e) == [name |-> e.name, price |-> e.price, last_updated |-> JsonDefault(e.last_updated)]

JsonDump(data) ==
    [ portfolio |-> data.portfolio,
      tech_stocks |-> [k \in DOMAIN data.tech_stocks |-> JsonEntry(data.tech_stocks[k])],
      last_api_call |-> data.last_api_call,
      api_call_count |-> data.api_call_count,
      last_save |-> JsonDefault(data.last_save) ]

NoDoc == [ portfolio |-> <<>>, tech_stocks |-> EmptyDict, last_api_call |-> 0,
           api_call_count |-> 0, last_save |-> IsoStr(0) ]

AbsentFile == [status |-> "absent", doc |-> NoDoc]
CorruptFile == [status |-> "corrupt", doc |-> NoDoc]

(* load_data, lines 21-30: the document, or {} when the file is absent or  *)
(* reading it raises.  keys: the keys of the dict returned.                *)
load_data(f) ==
    IF f.status = "ok"
    THEN [keys |-> {"portfolio", "tech_stocks", "last_api_call", "api_call_count", "last_save"},
          val |-> f.doc]
    ELSE [keys |-> {}, val |-> NoDoc]

(* save_data, lines 32-45 *)
save_data_drops_count(s) ==
    [s EXCEPT !.file = [status |-> "ok",
        doc |-> JsonDump([ portfolio |-> s.portfolio, tech_stocks |-> s.tech_stocks,
                           last_api_call |-> s.last_api_call, api_call_count |-> 0,
                           last_save |-> IsoStr(s.now) ])]]

save_data(s) ==
    [s EXCEPT !.file = [status |-> "ok",
        doc |-> JsonDump([ portfolio |-> s.portfolio, tech_stocks |-> s.tech_stocks,
                           last_api_call |-> s.last_api_call,
                           api_call_count |-> s.api_call_count,
                           last_save |-> IsoStr(s.now) ])]]

(* session state initialisation, lines 47-60, in a session with no keys    *)
SessionInit(f) ==
    LET saved_data == load_data(f)
        get(key, default) == IF key \in saved_data.keys THEN saved_data.val[key] ELSE default
    IN  [ portfolio |-> get("portfolio", <<>>),
          tech_stocks |-> get("tech_stocks", EmptyDict),
          last_api_call |-> get("last_api_call", 0),
          api_call_count |-> get("api_call_count", 0) ]

(* auto_save, lines 63-72 *)
auto_save(s) ==
    LET s1 == IF s.last_auto_save = -1 THEN [s EXCEPT !.last_auto_save = s.now] ELSE s
    IN  IF s1.now - s1.last_auto_save > AutoSaveEvery
        THEN [save_data(s1) EXCEPT !.last_auto_save = s1.now]
        ELSE s1

-----------------------------------------------------------------------------
(* rate_limit_api, lines 98-109.  time.sleep(d) is taken to return after   *)
(* exactly d seconds.                                                      *)

rate_limit_api_no_sleep(s) ==
    auto_save([s EXCEPT !.last_api_call = s.now, !.api_call_count = @ + 1])

rate_limit_api(s) ==
    LET time_since_last_call == s.now - s.last_api_call
        woke == IF time_since_last_call < MinCallSpacing
                THEN s.now + (MinCallSpacing - time_since_last_call)
                ELSE s.now
    IN  auto_save([s EXCEPT !.now = woke, !.last_api_call = woke, !.api_call_count = @ + 1])

(* requests.get(BASE_URL, params, timeout=10), lines 131 and 155: the log  *)
(* of the requests sent: when the last one and the one before it were     *)
(* sent, and what rate_limit_api had stamped.  n counts them up to 2.      *)
NoHttp == [n |-> 0, prev |-> -1, at |-> -1, stamp |-> -1]

HttpRequest(s) ==
    [s EXCEPT !.http = [ n |-> Min(s.http.n + 1, 2), prev |-> s.http.at, at |-> s.now,
                         stamp |-> s.last_api_call ]]

(* What a call meets.  "ok": a body with the expected key and field;       *)
(* "nokey": a body without the key (or with an empty quote); "badfield":   *)
(* the key is there and the field is not (KeyError); "timeout": the        *)
(* request raises after the timeout.  rate_limit_api itself raises         *)
(* nothing: save_data catches what its own body raises (line 44).          *)
FailKinds == {"nokey", "badfield", "timeout"}
LivePrices(symbol) == {mock_price(0, symbol), mock_price(0, symbol) + 1000}
PriceOutcomes(symbol) ==
    {[kind |-> "ok", price |-> p] : p \in LivePrices(symbol)}
        \cup {[kind |-> k, price |-> 0] : k \in FailKinds}

\* the "Time Series (Daily)" of a body, newest first
LiveBody(symbol) ==
    << [date |-> 0, close |-> mock_price(0, symbol) + 1000],
       [date |-> -1, close |-> mock_price(0, symbol)] >>
HistoryOutcomes(symbol) ==
    {[kind |-> "ok", body |-> LiveBody(symbol)]}
        \cup {[kind |-> k, body |-> <<>>] : k \in FailKinds}

\* the state after rate_limit_api and the request of a call that meets out
AfterRequest(s, out) ==
    LET s1 == HttpRequest(rate_limit_api(s))
    IN  IF out.kind = "timeout" THEN [s1 EXCEPT !.now = @ + RequestTimeout] ELSE s1

\* the exception the try block of a call that meets out raises ("none": none)
RaisedInTry(out) ==
    CASE out.kind = "badfield" -> "KeyError"
      [] out.kind = "timeout" -> "Timeout"
      [] OTHER -> "none"

\* "except Exception as e", lines 141 and 174: the exceptions the handler catches
except_request_errors(exc) == exc = "Timeout"

except_Exception(exc) == exc # "none"

(* get_stock_price(symbol), lines 111-142.  source is what the code path   *)
(* was; the value the caller gets is price alone.                          *)
get_stock_price(s, seed, symbol, out) ==
    LET s1 == AfterRequest(s, out)
        exc == RaisedInTry(out)
    IN  IF exc # "none" /\ ~except_Exception(exc)
        THEN [s |-> s1, price |-> -1, source |-> "none", raised |-> TRUE]
        ELSE IF out.kind = "ok"
        THEN [s |-> s1, price |-> out.price, source |-> "live", raised |-> FALSE]
        ELSE [s |-> s1, price |-> mock_price(seed, symbol), source |-> "mock", raised |-> FALSE]

\* lines 172 and 175: what get_stock_history returns when the live data is not there
history_fallback_empty(seed, symbol, days) == <<>>

\* generate_mock_history for the two lengths the pages ask for, computed once
MockHistoryOnce ==
    [seed \in Seeds |-> [symbol \in AllSymbols |-> [days \in {TechChartDays, DashboardDays} |->
        generate_mock_history(seed, symbol, days)]]]

history_fallback(seed, symbol, days) ==
    IF days \in {TechChartDays, DashboardDays}
    THEN MockHistoryOnce[seed][symbol][days]
    ELSE generate_mock_history(seed, symbol, days)

(* get_stock_history(symbol, days), lines 144-175: the rows, oldest first  *)
get_stock_history(s, seed, symbol, days, out) ==
    LET s1 == AfterRequest(s, out)
        exc == RaisedInTry(out)
        taken == Take(out.body, days)
    IN  IF exc # "none" /\ ~except_Exception(exc)
        THEN [s |-> s1, rows |-> <<>>, source |-> "none", raised |-> TRUE]
        ELSE IF out.kind = "ok"
        THEN [ s |-> s1, source |-> "live", raised |-> FALSE,
               rows |-> Reverse([k \in 1..Len(taken) |->
                                   [date |-> taken[k].date, price |-> taken[k].close]]) ]
        ELSE [ s |-> s1, source |-> "mock", raised |-> FALSE,
               rows |-> history_fallback(seed, symbol, days) ]

\* what is kept of a call's result: the value returned, and how the call went
NoRet == [fn |-> "none", symbol |-> "", days |-> 0, outcome |-> "", source |-> "",
          raised |-> FALSE, requested |-> FALSE, count_before |-> -1,
          price |-> -1, n |-> -1, first |-> -1, last |-> -1, last_date |-> 1]
PriceRet(s, symbol, out, r) ==
    [NoRet EXCEPT !.fn = "get_stock_price", !.symbol = symbol, !.outcome = out.kind,
                  !.source = r.source, !.raised = r.raised,
                  !.requested = (r.s.http # s.http), !.count_before = s.api_call_count,
                  !.price = r.price]
HistoryRet(s, symbol, days, out, r) ==
    [NoRet EXCEPT !.fn = "get_stock_history", !.symbol = symbol, !.days = days,
                  !.outcome = out.kind, !.source = r.source, !.raised = r.raised,
                  !.requested = (r.s.http # s.http), !.count_before = s.api_call_count,
                  !.n = Len(r.rows),
                  !.first = IF Len(r.rows) > 0 THEN r.rows[1].price ELSE -1,
                  !.last = IF Len(r.rows) > 0 THEN Last(r.rows).price ELSE -1,
                  !.last_date = IF Len(r.rows) > 0 THEN Last(r.rows).date ELSE 1]

-----------------------------------------------------------------------------
(* What the pages show *)

NoChart == [symbol |-> "", hist_source |-> "", price_source |-> "", hist_n |-> -1,
            hist_last_date |-> 1, hist_last_price |-> -1,
            days |-> <<>>, future_dates |-> <<>>, expected_prices |-> <<>>]
NoShown == [price_source |-> "none", notice |-> "none", chart |-> NoChart]

\* range(0, 366, 30), lines 303-304
ProjectionDays ==
    [k \in 1..((ProjectionStop + ProjectionStep - 1) \div ProjectionStep) |-> (k - 1) * ProjectionStep]

\* lines 293-312: the two traces of one holding
DashboardChart(symbol, history, p) ==
    [ symbol |-> symbol, hist_source |-> history.source, price_source |-> p.source,
      hist_n |-> history.n,
      hist_last_date |-> history.last_date, hist_last_price |-> history.last,
      days |-> ProjectionDays,
      future_dates |-> [k \in 1..Len(ProjectionDays) |-> history.last_date + ProjectionDays[k]],
      expected_prices |-> [k \in 1..Len(ProjectionDays) |->
                              calculate_expected_growth(p.price, ProjectionDays[k])] ]

\* line 341
PriceSourceLabel(count) == IF count < LiveLabelLimit THEN "live" ELSE "mock"

\* lines 253-254 and 403-404: the notice of the 'Update Prices' handlers
UpdateNotice(pg, count) ==
    IF count > WarnThreshold
    THEN (IF pg = "Dashboard" THEN "warning" ELSE "error")
    ELSE "none"

\* lines 365-374
Investment(choice, units, purchase_price, purchase_date, notes, t) ==
    [ symbol |-> STOCK_SYMBOLS[choice].symbol, name |-> choice, units |-> units,
      purchase_price |-> purchase_price, purchase_date |-> IsoStr(purchase_date),
      notes |-> notes, added_date |-> IsoStr(t),
      id |-> [symbol |-> STOCK_SYMBOLS[choice].symbol, at |-> t] ]

\* line 376: st.session_state.portfolio.append(investment)
AppendInvestment_merging(pf, investment) ==
    IF \E k \in 1..Len(pf) : pf[k].symbol = investment.symbol
    THEN [k \in 1..Len(pf) |->
            IF pf[k].symbol = investment.symbol
            THEN [pf[k] EXCEPT !.units = @ + investment.units]
            ELSE pf[k]]
    ELSE Append(pf, investment)

AppendInvestment(pf, investment) == Append(pf, investment)

\* lines 213-217 and 413-417
TechStockEntry(name, price, t) == [name |-> name, price |-> price, last_updated |-> IsoStr(t)]

SetItem(d, k, v) == [x \in DOMAIN d \cup {k} |-> IF x = k THEN v ELSE d[x]]

-----------------------------------------------------------------------------
(* The data files a session may find: none, an unreadable one, and         *)
(* documents saved by earlier sessions.                                    *)

SavedWithHolding ==
    JsonDump([ portfolio |-> <<Investment("IVV", DefaultUnits, 485750, -1, "", StartTime - 5)>>,
               tech_stocks |-> EmptyDict,
               last_api_call |-> StartTime - 5, api_call_count |-> LiveLabelLimit - 2,
               last_save |-> IsoStr(StartTime - 5) ])

SavedNearLimit ==
    JsonDump([ portfolio |-> <<>>,
               tech_stocks |-> [k \in TechKeySet |->
                    TechStockEntry(TechEntry(k).name, TechEntry(k).mock_price, StartTime - 15)],
               last_api_call |-> StartTime - 15, api_call_count |-> WarnThreshold,
               last_save |-> IsoStr(StartTime - 15) ])

InitFiles == {AbsentFile, CorruptFile,
              [status |-> "ok", doc |-> SavedWithHolding],
              [status |-> "ok", doc |-> SavedNearLimit]}

TickChoices == {13, 31}

-----------------------------------------------------------------------------
(* The script.  A rerun starts at "idle"; the loops that call the provider *)
(* take one step per item; every rerun ends with auto_save (line 630).     *)

DashboardBody(pf) == IF Len(pf) > 0 THEN "summary" ELSE "end"
TechBody(ts) == IF DOMAIN ts = {} THEN "end" ELSE "techchart"
DetailsBody(pf) == IF Len(pf) > 0 THEN "details" ELSE "end"
TechChartKeys == Take(TechKeys, TechChartCount)

\* a fresh session: lines 47-60, then the default page (Dashboard)
FreshSession(f, seed) ==
    LET init == SessionInit(f)
    IN  /\ portfolio' = init.portfolio
        /\ tech_stocks' = init.tech_stocks
        /\ last_api_call' = init.last_api_call
        /\ api_call_count' = init.api_call_count
        /\ last_auto_save' = -1
        /\ hashseed' = seed
        /\ page' = "Dashboard"
        /\ clicked' = "none"
        /\ pc' = "start"
        /\ idx' = 1

Init ==
    /\ \E f \in InitFiles, seed \in Seeds :
          LET init == SessionInit(f)
          IN  /\ file = f
              /\ hashseed = seed
              /\ portfolio = init.portfolio
              /\ tech_stocks = init.tech_stocks
              /\ last_api_call = init.last_api_call
              /\ api_call_count = init.api_call_count
    /\ last_auto_save = -1
    /\ now = StartTime
    /\ page = "Dashboard"
    /\ clicked = "none"
    /\ pc = "start"
    /\ idx = 1
    /\ reruns = 0
    /\ ret = NoRet
    /\ http = NoHttp
    /\ shown = NoShown
    /\ confirm = "hidden"
    /\ g_symbol = "" /\ g_days = 0 /\ g_base = 0 /\ g_i = 0 /\ g_prev = 0 /\ g_cur = 0
    /\ g_floored = FALSE
    /\ r_symbol = "" /\ r_days = 0 /\ r_seed = 0 /\ r_hist = <<>> /\ r_price = <<>> /\ r_n = 0

\* time passes between reruns
Tick ==
    /\ pc = "idle"
    /\ \E d \in TickChoices : now + d <= EndTime /\ now' = now + d
    /\ UNCHANGED <<sessVars, file, hashseed, pc, page, idx, clicked, reruns, ret, http, shown, confirm>>
    /\ UNCHANGED <<genVars, reproVars>>

\* a new session opens the app (served by the same process); the log of requests is per session
NewSession ==
    /\ pc = "idle"
    /\ reruns < MaxReruns
    /\ reruns' = reruns + 1
    /\ FreshSession(file, hashseed)
    /\ http' = NoHttp
    /\ confirm' = "hidden"
    /\ UNCHANGED <<file, now, ret, shown>>
    /\ UNCHANGED <<genVars, reproVars>>

\* the first rerun of a session: the Dashboard with no button clicked
FirstRun ==
    /\ pc = "start"
    /\ pc' = DashboardBody(portfolio)
    /\ shown' = NoShown
    /\ UNCHANGED <<sessVars, file, now, hashseed, page, idx, clicked, reruns, ret, http, confirm>>
    /\ UNCHANGED <<genVars, reproVars>>

\* the call, in a loop, that raised: the rerun stops there
Abort(s) ==
    /\ Commit(s)
    /\ pc' = "idle"
    /\ idx' = 1

(* Dashboard, lines 246-327 *)
StartDashboard ==
    /\ pc = "idle"
    /\ reruns < MaxReruns
    /\ reruns' = reruns + 1
    /\ \E update \in BOOLEAN :
          /\ clicked' = IF update THEN "update" ELSE "none"
          /\ pc' = IF update THEN "update" ELSE DashboardBody(portfolio)
          /\ shown' = [NoShown EXCEPT !.notice =
                          IF update THEN UpdateNotice("Dashboard", api_call_count) ELSE "none"]
    /\ page' = "Dashboard"
    /\ idx' = 1
    /\ confirm' = "hidden"
    /\ UNCHANGED <<sessVars, file, now, hashseed, ret, http>>
    /\ UNCHANGED <<genVars, reproVars>>

(* Tech Stocks, lines 396-475 *)
StartTechStocks ==
    /\ pc = "idle"
    /\ reruns < MaxReruns
    /\ reruns' = reruns + 1
    /\ \E update \in BOOLEAN :
          /\ clicked' = IF update THEN "update" ELSE "none"
          /\ pc' = IF update THEN "update" ELSE TechBody(tech_stocks)
          /\ shown' = [NoShown EXCEPT !.notice =
                          IF update THEN UpdateNotice("Tech Stocks", api_call_count) ELSE "none"]
    /\ page' = "Tech Stocks"
    /\ idx' = 1
    /\ confirm' = "hidden"
    /\ UNCHANGED <<sessVars, file, now, hashseed, ret, http>>
    /\ UNCHANGED <<genVars, reproVars>>

(* update_tech_stock_prices, lines 206-222: one pass of the loop; the last *)
(* pass goes on to auto_save (line 221), and on the Dashboard to the       *)
(* handler's own auto_save (line 257)                                      *)
update_tech_stock_prices ==
    /\ pc = "update"
    /\ LET symbol == TechKeys[idx] IN
       \E out \in PriceOutcomes(symbol) :
          LET r == get_stock_price(St, hashseed, symbol, out)
              s1 == IF r.price # 0
                    THEN [r.s EXCEPT !.tech_stocks =
                             SetItem(@, symbol, TechStockEntry(TechEntry(symbol).name, r.price, r.s.now))]
                    ELSE r.s
              s2 == [s1 EXCEPT !.now = @ + UpdateDelay]
              s3 == auto_save(s2)
              s4 == IF page = "Dashboard" THEN auto_save(s3) ELSE s3
          IN  /\ ret' = PriceRet(St, symbol, out, r)
              /\ IF r.raised THEN Abort(r.s)
                 ELSE IF idx < Len(TechKeys)
                 THEN s2.now <= EndTime /\ Commit(s2) /\ idx' = idx + 1 /\ pc' = "update"
                 ELSE /\ s4.now <= EndTime
                      /\ Commit(s4)
                      /\ idx' = 1
                      /\ pc' = IF page = "Dashboard" THEN DashboardBody(s4.portfolio)
                                                      ELSE TechBody(s4.tech_stocks)
    /\ UNCHANGED <<hashseed, page, clicked, reruns, shown, confirm>>
    /\ UNCHANGED <<genVars, reproVars>>

(* Dashboard summary, lines 266-269: one pass of the loop *)
DashboardSummary ==
    /\ pc = "summary"
    /\ LET symbol == portfolio[idx].symbol IN
       \E out \in PriceOutcomes(symbol) :
          LET r == get_stock_price(St, hashseed, symbol, out)
          IN  /\ ret' = PriceRet(St, symbol, out, r)
              /\ IF r.raised THEN Abort(r.s)
                 ELSE /\ r.s.now <= EndTime
                      /\ Commit(r.s)
                      /\ IF idx < Len(portfolio)
                         THEN idx' = idx + 1 /\ pc' = "summary"
                         ELSE idx' = 1 /\ pc' = "chart"
    /\ UNCHANGED <<hashseed, page, clicked, reruns, shown, confirm>>
    /\ UNCHANGED <<genVars, reproVars>>

(* Dashboard projection loop, lines 288-312: one pass, in two steps.       *)
(* Line 290: the history of the holding                                    *)
DashboardHistory ==
    /\ pc = "chart"
    /\ LET symbol == portfolio[idx].symbol IN
       \E out \in HistoryOutcomes(symbol) :
          LET h == get_stock_history(St, hashseed, symbol, DashboardDays, out)
          IN  /\ ret' = HistoryRet(St, symbol, DashboardDays, out, h)
              /\ IF h.raised THEN Abort(h.s)
                 ELSE h.s.now <= EndTime /\ Commit(h.s) /\ pc' = "project" /\ idx' = idx
    /\ UNCHANGED <<hashseed, page, clicked, reruns, shown, confirm>>
    /\ UNCHANGED <<genVars, reproVars>>

\* lines 291-312: the current price and the two traces; ret is the history of line 290
DashboardProjection ==
    /\ pc = "project"
    /\ LET symbol == portfolio[idx].symbol IN
       \E out \in PriceOutcomes(symbol) :
          LET p == get_stock_price(St, hashseed, symbol, out)
          IN  /\ ret' = PriceRet(St, symbol, out, p)
              /\ IF p.raised THEN Abort(p.s) /\ shown' = shown
                 ELSE /\ p.s.now <= EndTime
                      /\ Commit(p.s)
                      /\ shown' = IF p.price # 0
                                  THEN [shown EXCEPT !.chart = DashboardChart(symbol, ret, p)]
                                  ELSE shown
                      /\ IF idx < Len(portfolio)
                         THEN idx' = idx + 1 /\ pc' = "chart"
                         ELSE idx' = 1 /\ pc' = "end"
    /\ UNCHANGED <<hashseed, page, clicked, reruns, confirm>>
    /\ UNCHANGED <<genVars, reproVars>>

(* Tech Stocks chart, lines 453-463: one pass of the loop *)
TechStocksChart ==
    /\ pc = "techchart"
    /\ LET symbol == TechChartKeys[idx] IN
       \E out \in HistoryOutcomes(symbol) :
          LET h == get_stock_history(St, hashseed, symbol, TechChartDays, out)
          IN  /\ ret' = HistoryRet(St, symbol, TechChartDays, out, h)
              /\ IF h.raised THEN Abort(h.s)
                 ELSE /\ h.s.now <= EndTime
                      /\ Commit(h.s)
                      /\ IF idx < Len(TechChartKeys)
                         THEN idx' = idx + 1 /\ pc' = "techchart"
                         ELSE idx' = 1 /\ pc' = "end"
    /\ UNCHANGED <<hashseed, page, clicked, reruns, shown, confirm>>
    /\ UNCHANGED <<genVars, reproVars>>

(* Tech Stocks 'Load Demo Data', lines 408-419 *)
LoadDemoData ==
    /\ pc = "idle"
    /\ reruns < MaxReruns
    /\ reruns' = reruns + 1
    /\ DOMAIN tech_stocks = {}
    /\ LET s1 == [St EXCEPT !.tech_stocks =
                    [k \in TechKeySet |-> TechStockEntry(TechEntry(k).name, TechEntry(k).mock_price, now)]]
       IN  Commit(save_data(s1))
    /\ page' = "Tech Stocks"
    /\ clicked' = "demo"
    /\ pc' = "end"
    /\ confirm' = "hidden"
    /\ UNCHANGED <<hashseed, idx, ret, shown>>
    /\ UNCHANGED <<genVars, reproVars>>

(* Portfolio Details, lines 477-569 *)
StartPortfolioDetails ==
    /\ pc = "idle"
    /\ reruns < MaxReruns
    /\ reruns' = reruns + 1
    /\ \E save \in BOOLEAN :
          /\ save => Len(portfolio) > 0
          /\ clicked' = IF save THEN "save" ELSE "none"
    /\ pc' = DetailsBody(portfolio)
    /\ page' = "Portfolio Details"
    /\ idx' = 1
    /\ shown' = NoShown
    /\ confirm' = "hidden"
    /\ UNCHANGED <<sessVars, file, now, hashseed, ret, http>>
    /\ UNCHANGED <<genVars, reproVars>>

\* lines 488-509: one pass of the loop; after the last, the 'Save Portfolio Data' button (556-558)
PortfolioDetails ==
    /\ pc = "details"
    /\ LET symbol == portfolio[idx].symbol IN
       \E out \in PriceOutcomes(symbol) :
          LET r == get_stock_price(St, hashseed, symbol, out)
              s1 == IF clicked = "save" THEN save_data(r.s) ELSE r.s
          IN  /\ ret' = PriceRet(St, symbol, out, r)
              /\ IF r.raised THEN Abort(r.s)
                 ELSE /\ r.s.now <= EndTime
                      /\ IF idx < Len(portfolio)
                         THEN Commit(r.s) /\ idx' = idx + 1 /\ pc' = "details"
                         ELSE Commit(s1) /\ idx' = 1 /\ pc' = "end"
    /\ UNCHANGED <<hashseed, page, clicked, reruns, shown, confirm>>
    /\ UNCHANGED <<genVars, reproVars>>

(* Add Investment, lines 329-394 *)
AddInvestment ==
    /\ pc = "idle"
    /\ reruns < MaxReruns
    /\ reruns' = reruns + 1
    /\ \E choice \in StockChoices, add \in BOOLEAN :
       LET symbol == STOCK_SYMBOLS[choice].symbol IN
       \E out \in PriceOutcomes(symbol) :
          LET r == get_stock_price(St, hashseed, symbol, out)
              purchase_price == IF r.price # 0 THEN r.price ELSE STOCK_SYMBOLS[choice].mock_price
              s1 == IF add
                    THEN save_data([r.s EXCEPT !.portfolio =
                            AppendInvestment(@, Investment(choice, DefaultUnits, purchase_price, 0, "", r.s.now))])
                    ELSE r.s
          IN  /\ add => Len(portfolio) < MaxPortfolio
              /\ ret' = PriceRet(St, symbol, out, r)
              /\ IF r.raised THEN Abort(r.s) /\ shown' = shown /\ clicked' = "none"
                 ELSE /\ r.s.now <= EndTime
                      /\ Commit(s1)
                      /\ clicked' = IF add THEN "add" ELSE "none"
                      /\ shown' = [shown EXCEPT !.price_source =
                                      IF r.price # 0 THEN PriceSourceLabel(r.s.api_call_count) ELSE "none"]
                      /\ pc' = "end"
                      /\ idx' = 1
    /\ page' = "Add Investment"
    /\ confirm' = "hidden"
    /\ UNCHANGED hashseed
    /\ UNCHANGED <<genVars, reproVars>>

(* Data Management 'Save All Data Now' (589-591) and the sidebar's         *)
(* 'Save Data Now' (239-241)                                               *)
SaveNow ==
    /\ pc = "idle"
    /\ reruns < MaxReruns
    /\ reruns' = reruns + 1
    /\ \E button \in {"sidebar_save", "save_all"} : clicked' = button
    /\ Commit(save_data(St))
    /\ page' = "Data Management"
    /\ pc' = "end"
    /\ confirm' = "hidden"
    /\ UNCHANGED <<hashseed, idx, ret, shown>>
    /\ UNCHANGED <<genVars, reproVars>>

(* Data Management 'Clear All Data', lines 607-613.  A rerun is started by *)
(* one event of the user.  st.button is True only in the rerun its click   *)
(* started; st.checkbox gives the value of its widget, ticked only by a    *)
(* tick of the box while it is on screen, and the box is on screen only    *)
(* after a rerun that reached line 609.                                    *)
st_button(event) == event = "clear"
st_checkbox(event, onscreen) == onscreen /\ event = "confirm"

\* lines 608-612, for what the two widgets return
ClearAllData(s, button, checkbox) ==
    IF button /\ checkbox
    THEN save_data([s EXCEPT !.portfolio = <<>>, !.tech_stocks = EmptyDict])
    ELSE s

\* the events the user can give the page: a click, and a tick of the box on screen
ClearEvents == {"clear"} \cup (IF confirm = "shown" THEN {"confirm"} ELSE {})

DataManagementClear ==
    /\ pc = "idle"
    /\ reruns < MaxReruns
    /\ reruns' = reruns + 1
    /\ \E event \in ClearEvents :
          LET button == st_button(event)
              checkbox == button /\ st_checkbox(event, confirm = "shown")
          IN  /\ Commit(ClearAllData(St, button, checkbox))
              /\ clicked' = event
              /\ confirm' = IF button THEN "shown" ELSE "hidden"
    /\ page' = "Data Management"
    /\ pc' = "end"
    /\ UNCHANGED <<hashseed, idx, ret, shown>>
    /\ UNCHANGED <<genVars, reproVars>>

\* the end of a rerun: auto_save, line 630; what the rerun showed is gone with it
EndRun ==
    /\ pc = "end"
    /\ Commit(auto_save(St))
    /\ pc' = "idle"
    /\ page' = ""
    /\ clicked' = "none"
    /\ ret' = NoRet
    /\ shown' = NoShown
    /\ UNCHANGED <<hashseed, idx, reruns, confirm>>
    /\ UNCHANGED <<genVars, reproVars>>

Next ==
    \/ Tick
    \/ NewSession
    \/ FirstRun
    \/ StartDashboard
    \/ StartTechStocks
    \/ update_tech_stock_prices
    \/ DashboardSummary
    \/ DashboardHistory
    \/ DashboardProjection
    \/ TechStocksChart
    \/ LoadDemoData
    \/ StartPortfolioDetails
    \/ PortfolioDetails
    \/ AddInvestment
    \/ SaveNow
    \/ DataManagementClear
    \/ EndRun

Spec == Init /\ [][Next]_vars

-----------------------------------------------------------------------------
(* generate_mock_history step by step, for any outcome of the hash.        *)

\* the main program at rest while a pure function is exercised
MainAtRest ==
    /\ file = AbsentFile
    /\ hashseed = 0
    /\ portfolio = <<>>
    /\ tech_stocks = EmptyDict
    /\ last_api_call = 0
    /\ api_call_count = 0
    /\ last_auto_save = -1
    /\ now = StartTime
    /\ page = ""
    /\ clicked = "none"
    /\ pc = "idle"
    /\ idx = 1
    /\ reruns = 0
    /\ ret = NoRet
    /\ http = NoHttp
    /\ shown = NoShown
    /\ confirm = "hidden"

\* values of hash(symbol + str(i)) % 200 the steps draw from: both ends and the middle
HashResidues == {0, 100, 199}
GenDays == {0, 1, MaxGenDays}

\* lines 179-188: dates, base_price and prices = [base_price]
InitMock ==
    /\ MainAtRest
    /\ \E symbol \in AllSymbols, days \in GenDays, seed \in Seeds :
          /\ g_symbol = symbol
          /\ g_days = days
          /\ g_base = mock_price(seed, symbol)
          /\ g_cur = mock_price(seed, symbol)
    /\ g_prev = g_cur
    /\ g_i = 1
    /\ g_floored = FALSE
    /\ r_symbol = "" /\ r_days = 0 /\ r_seed = 0 /\ r_hist = <<>> /\ r_price = <<>> /\ r_n = 0

\* lines 189-193: one pass of the loop, i in range(1, len(dates)); g_cur is prices[-1]
MockLoopStep ==
    /\ g_i <= g_days
    /\ \E m \in HashResidues :
          /\ g_cur' = MockNext(g_cur, g_base, m)
          /\ g_floored' = (g_cur + MockChange(g_cur, m) < g_base \div 2)
    /\ g_prev' = g_cur
    /\ g_i' = g_i + 1
    /\ UNCHANGED <<g_symbol, g_days, g_base>>
    /\ UNCHANGED <<mainVars, reproVars>>

NextMock == MockLoopStep

SpecMock == InitMock /\ [][NextMock]_vars

-----------------------------------------------------------------------------
(* The fallback generator invoked twice, in one process or in two.         *)

ReproDays == 0..MaxReproDays

InitRepro ==
    /\ MainAtRest
    /\ g_symbol = "" /\ g_days = 0 /\ g_base = 0 /\ g_i = 0 /\ g_prev = 0 /\ g_cur = 0
    /\ g_floored = FALSE
    /\ r_symbol \in AllSymbols
    /\ r_days \in ReproDays
    /\ r_seed \in Seeds
    /\ r_hist = <<>>
    /\ r_price = <<>>
    /\ r_n = 0

\* generate_mock_history(symbol, days) and get_stock_price(symbol, use_mock=True) are called
InvokeMock ==
    /\ r_n < 2
    /\ r_n' = r_n + 1
    /\ r_hist' = Append(r_hist, [seed |-> r_seed,
                                 prices |-> [k \in 1..(r_days + 1) |->
                                               generate_mock_history(r_seed, r_symbol, r_days)[k].price]])
    /\ r_price' = Append(r_price, mock_price(r_seed, r_symbol))
    /\ UNCHANGED <<r_symbol, r_days, r_seed>>
    /\ UNCHANGED <<mainVars, genVars>>

\* the program is run again: the new process draws its hash seed
RestartProcess ==
    /\ r_n = 1
    /\ \E seed \in Seeds : r_seed' = seed
    /\ UNCHANGED <<r_symbol, r_days, r_hist, r_price, r_n>>
    /\ UNCHANGED <<mainVars, genVars>>

NextRepro == InvokeMock \/ RestartProcess

SpecRepro == InitRepro /\ [][NextRepro]_vars

-----------------------------------------------------------------------------
(* Properties *)

SessionValues ==
    [ portfolio |-> portfolio, tech_stocks |-> tech_stocks,
      last_api_call |-> last_api_call, api_call_count |-> api_call_count ]
ChartDrawn == shown.chart.hist_n >= 0
HistoryDays == IF page = "Dashboard" THEN DashboardDays ELSE TechChartDays

\* C1: within a session every live HTTP request is sent at the moment rate_limit_api
\* has just stamped last_api_call, and the stamps of two consecutive requests are at
\* least 12 seconds apart, whatever the symbols of the two calls.
C1_RateLimitSpacing ==
    /\ http.n >= 1 => (http.stamp = http.at /\ http.at <= now)
    /\ http.n >= 2 => http.at - http.prev >= MinCallSpacing

\* C1 witness: in update_tech_stock_prices the request for the second symbol is sent
\* exactly 12 seconds after the request for the first: the limiter slept.
C1_Witness ==
    /\ clicked = "update"
    /\ ret.fn = "get_stock_price"
    /\ ret.symbol = TechKeys[2]
    /\ ret.requested
    /\ http.n = 2
    /\ http.at - http.prev = MinCallSpacing

\* C2 (as claimed): no call of get_stock_price or get_stock_history sends a live request
\* once api_call_count has passed the threshold (450).
C2_NoLiveCallPastThreshold ==
    (ret.fn # "none" /\ ret.requested) => ret.count_before <= WarnThreshold

\* C3: whatever the call meets, no exception escapes get_stock_price or
\* get_stock_history; get_stock_price returns a price and get_stock_history a series
\* with rows, and when the live data is not there both are the mock fallback's.
C3_NeverHardFailure ==
    ret.fn # "none" =>
        /\ ~ret.raised
        /\ ret.fn = "get_stock_price" => ret.price > 0
        /\ ret.fn = "get_stock_history" => ret.n > 0
        /\ ret.outcome = "ok" => ret.source = "live"
        /\ ret.outcome \in FailKinds =>
              /\ ret.source = "mock"
              /\ ret.fn = "get_stock_price" => ret.price = mock_price(hashseed, ret.symbol)
              /\ ret.fn = "get_stock_history" =>
                    ret.first = mock_price(hashseed, ret.symbol)

\* C3 witness: a body with the key and without the field (KeyError inside the try)
\* has been answered with the mock price.
C3_Witness ==
    /\ ret.fn = "get_stock_price"
    /\ ret.outcome = "badfield"
    /\ ret.source = "mock"
    /\ ret.price = mock_price(hashseed, ret.symbol)

\* C4 (as claimed): the label the Add Investment page shows is the source of the price
\* returned, and a price from the mock fallback can be told from a live one by the
\* value the caller gets.
C4_SourceIsTold ==
    /\ shown.price_source # "none" => shown.price_source = ret.source
    /\ (ret.fn = "get_stock_price" /\ ret.source = "mock") =>
          ~ \E out \in PriceOutcomes(ret.symbol) : out.kind = "ok" /\ out.price = ret.price

\* C5 (as claimed): when the body lacks the time series, is malformed, or the request
\* times out, get_stock_history returns an empty series and does not raise.
C5_EmptySeriesOnFailure ==
    (ret.fn = "get_stock_history" /\ ret.outcome \in FailKinds) => (ret.n = 0 /\ ~ret.raised)

\* C5 (amended): in those cases get_stock_history returns the series of
\* generate_mock_history(symbol, days): days + 1 rows, the first at the symbol's mock
\* base price; it is not empty and nothing is raised.
C5_MockSeriesOnFailure ==
    (ret.fn = "get_stock_history" /\ ret.outcome \in FailKinds) =>
        /\ ~ret.raised
        /\ ret.source = "mock"
        /\ ret.n = ret.days + 1
        /\ ret.first = mock_price(hashseed, ret.symbol)
        /\ ret.last_date = 0

\* C5 witness: the request of a get_stock_history call has timed out
C5_Witness ==
    /\ ret.fn = "get_stock_history"
    /\ ret.outcome = "timeout"
    /\ ret.n = HistoryDays + 1

\* C6: the series of generate_mock_history starts at the symbol's base price, never
\* goes below half of the base price, and moves by at most 2% of the previous price
\* from one day to the next, also on the steps where the floor is applied.
C6_MockSeriesBounded ==
    /\ g_base > 0
    /\ g_i = 1 => (g_cur = g_base /\ \E seed \in Seeds : g_base = mock_price(seed, g_symbol))
    /\ 2 * g_cur >= g_base
    /\ g_i > 1 => 100 * Abs(g_cur - g_prev) <= 2 * g_prev

\* C6 witness: a step on which the floor was applied
C6_Witness ==
    /\ g_i > 1
    /\ g_floored
    /\ 2 * g_cur = g_base
    /\ g_cur < g_prev

\* C7 (as claimed): two invocations of the fallback generator with the same symbol and
\* days, in the same run or in two runs of the program, return the same prices and the
\* same base price.
C7_MockReproducible ==
    r_n = 2 => (r_hist[1].prices = r_hist[2].prices /\ r_price[1] = r_price[2])

\* C8 (as claimed): the first projected point of a charted holding has the date and
\* the value of the last point of its history.
C8_ProjectionContinuous ==
    ChartDrawn =>
        /\ shown.chart.future_dates[1] = shown.chart.hist_last_date
        /\ shown.chart.expected_prices[1] = shown.chart.hist_last_price

\* C9 (as claimed): the projected series has a point at day 365, worth the starting
\* value times 1.08, and its values do not decrease.
C9_ProjectionReaches365 ==
    ChartDrawn =>
        /\ \E k \in 1..Len(shown.chart.days) :
              /\ shown.chart.days[k] = 365
              /\ shown.chart.expected_prices[k] =
                    shown.chart.expected_prices[1] + TruncDiv(shown.chart.expected_prices[1] * 8, 100)
        /\ \A k \in 1..(Len(shown.chart.days) - 1) :
              shown.chart.expected_prices[k] <= shown.chart.expected_prices[k + 1]

\* C10: what save_data has written, load_data and the initialisation block of a
\* fresh session read back as the portfolio, tech_stocks, last_api_call and
\* api_call_count the session had at the save; a fresh session has exactly what the
\* file gives, and with no file or an unreadable one it has an empty portfolio, empty
\* tech_stocks and both counters at 0.
SavingButtons == {"add", "demo", "save", "sidebar_save", "save_all"}
C10_PersistenceRoundTrip ==
    /\ (pc = "end" /\ clicked \in SavingButtons) =>
          (file.status = "ok" /\ SessionInit(file) = SessionValues)
    /\ pc = "start" =>
          IF file.status = "ok"
          THEN SessionValues = [ portfolio |-> file.doc.portfolio,
                                 tech_stocks |-> file.doc.tech_stocks,
                                 last_api_call |-> file.doc.last_api_call,
                                 api_call_count |-> file.doc.api_call_count ]
          ELSE SessionValues = [ portfolio |-> <<>>, tech_stocks |-> EmptyDict,
                                 last_api_call |-> 0, api_call_count |-> 0 ]

\* C10 witness: a fresh session has started from a file saved by the session before
\* it, after that session had called the API and added a holding.
C10_Witness ==
    /\ pc = "start"
    /\ reruns > 0
    /\ file.status = "ok"
    /\ file.doc.last_save.at > StartTime
    /\ Len(portfolio) > 0
    /\ api_call_count > 0
    /\ last_api_call > StartTime

C12_UpdateIsPersisted ==
    [][ (pc = "update" /\ pc' \notin {"update", "idle"}) =>
            /\ file'.status = "ok"
            /\ SessionInit(file').tech_stocks = tech_stocks' ]_vars

\* C13 (as claimed): once the user has clicked 'Clear All Data' and then ticked the
\* confirmation checkbox, the portfolio and tech_stocks of the session are empty and
\* the data file reads back empty as well.
C13_ClearedAfterConfirm ==
    (clicked = "confirm" /\ pc = "end") =>
        /\ portfolio = <<>>
        /\ tech_stocks = EmptyDict
        /\ SessionInit(file).portfolio = <<>>
        /\ SessionInit(file).tech_stocks = EmptyDict

=============================================================================
